---- MODULE Spec2Model ----
(***************************************************************************)
(* Model of the ClipMaster video pipeline of tiktok-auto-publisher:        *)
(* VideoProcessor.process_video (segmentation, transcription, captions,    *)
(* format normalisation, sidecar, encode) and VideoEncoder.reencode_video  *)
(* with its single size-reduction pass.                                    *)
(*                                                                         *)
(* Times are counted in ticks, TicksPerSec ticks to the second, so that    *)
(* durations which are not a whole number of seconds can be represented.   *)
(* Subtitle span times are whole seconds.  File sizes are whole megabytes. *)
(*                                                                         *)
(* The components that run outside process_video have a specification each *)
(* (TimestampSpec, PublisherSpec, QualitySpec, CollectorSpec, TrendsSpec,  *)
(* RendererSpec, FramingSpec, BitratesSpec, ScoringSpec, OrganizerSpec,    *)
(* RequestSpec, HunterSpec), in which the pipeline is at rest.             *)
(***************************************************************************)
EXTENDS Integers, Sequences, FiniteSets, TLC

\* ---- bounds of the model -------------------------------------------------
TicksPerSec == 2
MaxDurationTicks == 5
MaxSegmentDuration == 2
MaxSpans == 2
MaxMillis == 1200
MaxFileSize == 3
MaxHashtags == 3
MaxDescription == 4
MaxKeywords == 2
MaxVideos == 2
MaxItems == 2
MaxSide == 12
MaxBitrate == 6
MaxSeconds == 6
MaxMetrics == 5
MaxParts == 4
MaxCalls == 2
MaxClock == 4

\* ---- program constants ---------------------------------------------------
max_size == 287
max_duration == 60
min_views == 1000
max_attempts == 3
stop_after_attempt == 3
cache_duration == 3600

\* the value of `subtitles` when there are none (falsy in `if subtitles:`)
NoSubtitles == [present |-> FALSE, text |-> "", segments |-> << >>]

\* ---- helpers -------------------------------------------------------------
Min(a, b) == IF a <= b THEN a ELSE b

CeilDiv(a, b) == (a + b - 1) \div b

\* the upward-counting sequence <<1, ..., n>>
Indices(n) == [k \in 1..n |-> k]

\* ---- inputs --------------------------------------------------------------
\* (w, h) of the source: 16:9, exactly 9:16, and narrower than 9:16
Dimensions == { <<1920, 1080>>, <<1080, 1920>>, <<720, 1920>> }

Configs ==
    [ duration           : 1..MaxDurationTicks,
      segment_duration   : 1..MaxSegmentDuration,
      dims               : Dimensions,
      use_subtitles      : BOOLEAN,
      force_vertical     : BOOLEAN,
      add_watermark      : BOOLEAN,
      reencode_with_ffmpeg : BOOLEAN,
      source             : {"ok", "missing", "unreadable"},
      dry_run            : BOOLEAN ]

\* what the speech-to-text model may hand back for one segment: a list of
\* timed spans, with nothing guaranteed about their timing or text
SpanKinds ==
    { [start |-> 0,  end |-> 2,  text |-> "hi"],
      [start |-> 2,  end |-> 9,  text |-> "hi"],
      [start |-> 0,  end |-> 20, text |-> "hi"],
      [start |-> 3,  end |-> 3,  text |-> "hi"],
      [start |-> 4,  end |-> 6,  text |-> " "] }

SpanLists == UNION { [1..n -> SpanKinds] : n \in 0..MaxSpans }

\* sizes an encode may produce, around the limit
Sizes == { max_size - 1, max_size, max_size + 1 }

\* ---- state ---------------------------------------------------------------
VARIABLES
    config,         \* the configuration and the call's arguments
    pc,             \* position in process_video / reencode_video
    segments,       \* result of _split_video: sequence of [start, end] in ticks
    i,              \* 1-based number of the segment being processed
    output_paths,   \* the list being built (a path is named by its segment number)
    result,         \* "running", "returned" or "raised"
    files,          \* names of the files that exist
    partial,        \* those of them an aborted writer left incomplete
    subtitles,      \* NoSubtitles, or the transcription of the current segment
    rendered,       \* spans for which a text element was created
    stages,         \* stages the current segment has completed, in order
    failed,         \* segments the loop gave up on (logged and skipped)
    transcribeRaised, \* the current segment's speech-to-text call raised
    captioned,      \* the current segment's clip carries burned-in captions
    encCalls,       \* encoder invocations of the current reencode_video call
    encResult,      \* "pending" while encoding, then "True" or "False"
    outSize,        \* size in MB of the file at output_path
    codec,          \* a timestamp on its way through the SRT conversion
    publisher,      \* AutoPublisher: one publish_video call
    quality,        \* QualityChecker: one check_video call
    collector,      \* ContentCollector: one collect_content call
    trends,         \* TrendHunter: one find_trends call
    renderer,       \* _add_subtitles_ffmpeg: one call
    framing,        \* _force_vertical_format: one call
    bitrates,       \* VideoEncoder: the rate arguments of one encode
    scoring,        \* _calculate_overall_quality: one call
    organizer,      \* organize_outputs: one call
    request,        \* ContentCollector: one decorated HTTP operation
    hunter          \* TrendHunter: _get_tiktok_trends calls over time

vars == << config, pc, segments, i, output_paths, result, files, partial,
           subtitles, rendered, stages, transcribeRaised, captioned, failed,
           encCalls, encResult, outSize, codec, publisher, quality,
           collector, trends, renderer, framing, bitrates, scoring,
           organizer, request, hunter >>

\* the state of process_video and reencode_video
pipelineVars == << config, pc, segments, i, output_paths, result, files,
                   partial, subtitles, rendered, stages, transcribeRaised,
                   captioned, failed, encCalls, encResult, outSize >>

\* the state of the components process_video does not run
firstVars == << codec, publisher, quality, collector, trends >>

laterVars == << renderer, framing, bitrates, scoring, organizer, request, hunter >>

compVars == << firstVars, laterVars >>

\* everything but the one component a specification runs
notCodec     == << pipelineVars, publisher, quality, collector, trends, laterVars >>
notPublisher == << pipelineVars, codec, quality, collector, trends, laterVars >>
notQuality   == << pipelineVars, codec, publisher, collector, trends, laterVars >>
notCollector == << pipelineVars, codec, publisher, quality, trends, laterVars >>
notTrends    == << pipelineVars, codec, publisher, quality, collector, laterVars >>
notRenderer  == << pipelineVars, firstVars, framing, bitrates, scoring, organizer, request, hunter >>
notFraming   == << pipelineVars, firstVars, renderer, bitrates, scoring, organizer, request, hunter >>
notBitrates  == << pipelineVars, firstVars, renderer, framing, scoring, organizer, request, hunter >>
notScoring   == << pipelineVars, firstVars, renderer, framing, bitrates, organizer, request, hunter >>
notOrganizer == << pipelineVars, firstVars, renderer, framing, bitrates, scoring, request, hunter >>
notRequest   == << pipelineVars, firstVars, renderer, framing, bitrates, scoring, organizer, hunter >>
notHunter    == << pipelineVars, firstVars, renderer, framing, bitrates, scoring, organizer, request >>

segVars == << subtitles, rendered, stages, transcribeRaised, captioned >>
encVars == << encCalls, encResult, outSize >>

\* ---- file names ----------------------------------------------------------
TempSegment(k)  == << "temp_segment", k >>
TempWithSubs(k) == << "temp_with_subs", k >>
TempWhisper     == << "temp_for_whisper", 0 >>
TempSrt         == << "temp_segment.srt", 0 >>
OutVideo(k)     == << "output", k >>
OutSidecar(k)   == << "output.txt", k >>
\* a reduction pass that encodes straight onto video_path
ReduceInPlace(k) == << "output", k >>
ReduceTemp(k)   == << "output.temp.mp4", k >>

IsTemp(f) == f[1] \in { "temp_segment", "temp_with_subs", "temp_for_whisper",
                        "temp_segment.srt" }

\* ---- _split_video --------------------------------------------------------
\* range(0, int(duration), segment_duration): the start times, in seconds
SplitStarts(duration, segment_duration) ==
    LET n == CeilDiv(duration \div TicksPerSec, segment_duration)
    IN  [k \in 1..n |-> (k - 1) * segment_duration]

SplitVideo(duration, segment_duration) ==
    LET starts == SplitStarts(duration, segment_duration)
    IN  [k \in 1..Len(starts) |->
            [start |-> starts[k] * TicksPerSec,
             end   |-> Min((starts[k] + segment_duration) * TicksPerSec, duration)]]

\* ---- components at rest --------------------------------------------------
\* no timestamp has been formatted yet
NoSrt == [hours |-> 0, minutes |-> 0, seconds |-> 0, milliseconds |-> 0]

CodecIdle == [pc |-> "idle", time |-> 0, srt |-> NoSrt, seconds |-> 0]

\* post data not prepared yet
NoPostData == [description |-> << >>, hashtags |-> << >>]

PublisherIdle ==
    [ pc         |-> "idle",
      cfg        |-> [max_file_size |-> 0, max_hashtags |-> 0,
                      max_description_length |-> 0],
      video      |-> [exists |-> FALSE, size |-> 0],
      metadata   |-> NoPostData,
      post_data  |-> NoPostData,
      api_called |-> FALSE,
      reports    |-> 0,
      result     |-> "running",
      error      |-> "",
      status     |-> "" ]

\* a metrics dictionary: the metrics it holds a {'value', 'status'} entry
\* for, and those of them whose status is 'good'
NoMetrics == [names |-> {}, good |-> {}]

QualityIdle ==
    [ pc        |-> "idle",
      opens     |-> FALSE,
      has_audio |-> FALSE,
      measured  |-> {},
      visual    |-> NoMetrics,
      audio     |-> NoMetrics,
      overall   |-> "",
      content   |-> "video",
      reports   |-> 0,
      result    |-> "running" ]

\* no video has been taken from a details list yet
NoVideo == [id |-> << 0, 0 >>, wellformed |-> FALSE, duration |-> 0,
            views |-> 0, downloads |-> FALSE]

CollectorIdle ==
    [ pc        |-> "idle",
      keywords  |-> 0,
      k         |-> 0,
      found     |-> 0,
      n         |-> 0,
      j         |-> 0,
      video     |-> NoVideo,
      collected |-> << >>,
      listed    |-> 0,
      handled   |-> 0,
      errors    |-> 0,
      result    |-> "running" ]

TrendsIdle ==
    [ pc       |-> "idle",
      cache    |-> "none",
      attempts |-> 0,
      fetch    |-> "",
      items    |-> 0,
      parses   |-> FALSE,
      tiktok   |-> << >>,
      trends   |-> << >>,
      cached   |-> FALSE,
      result   |-> "running" ]

RendererIdle ==
    [ pc        |-> "idle",
      video     |-> FALSE,
      srt       |-> FALSE,
      entries   |-> 0,
      dims      |-> << 0, 0 >>,
      font_size |-> 0,
      ass       |-> "absent",
      calls     |-> << >>,
      result    |-> "pending" ]

FramingIdle ==
    [ pc      |-> "idle",
      dims    |-> << 0, 0 >>,
      size    |-> << 0, 0 >>,
      content |-> << 0, 0 >>,
      offset  |-> << 0, 0 >> ]

NoRate == [halves |-> 0, unit |-> ""]

BitratesIdle ==
    [ pc          |-> "idle",
      bitrate     |-> [value |-> 0, unit |-> ""],
      maxrate     |-> NoRate,
      bufsize     |-> NoRate,
      new_bitrate |-> 0,
      r_maxrate   |-> NoRate,
      r_bufsize   |-> NoRate ]

ScoringIdle ==
    [ pc             |-> "idle",
      visual_metrics |-> << >>,
      audio_metrics  |-> << >>,
      overall        |-> [good |-> 0, total |-> 0, status |-> ""] ]

OrganizerIdle ==
    [ pc           |-> "idle",
      parts        |-> 0,
      output_paths |-> << >>,
      position     |-> 0,
      placed       |-> { } ]

RequestIdle ==
    [ pc       |-> "idle",
      fn       |-> "",
      attempts |-> 0,
      returned |-> << >> ]

\* no list of trends
NoList == [trends |-> << >>, created |-> 0]

\* no cache file
NoCacheFile == [exists |-> FALSE, mtime |-> 0, readable |-> FALSE, data |-> NoList]

HunterIdle ==
    [ pc         |-> "idle",
      now        |-> 0,
      cache_file |-> NoCacheFile,
      at_call    |-> NoCacheFile,
      called_at  |-> 0,
      requested  |-> FALSE,
      trends     |-> NoList,
      returned   |-> NoList ]

\* the later components at rest, but for the named one
IdleBut(name) ==
    /\ IF name = "renderer" THEN TRUE ELSE renderer = RendererIdle
    /\ IF name = "framing" THEN TRUE ELSE framing = FramingIdle
    /\ IF name = "bitrates" THEN TRUE ELSE bitrates = BitratesIdle
    /\ IF name = "scoring" THEN TRUE ELSE scoring = ScoringIdle
    /\ IF name = "organizer" THEN TRUE ELSE organizer = OrganizerIdle
    /\ IF name = "request" THEN TRUE ELSE request = RequestIdle
    /\ IF name = "hunter" THEN TRUE ELSE hunter = HunterIdle

ComponentsIdle ==
    /\ codec = CodecIdle
    /\ publisher = PublisherIdle
    /\ quality = QualityIdle
    /\ collector = CollectorIdle
    /\ trends = TrendsIdle

\* ---- initial state -------------------------------------------------------
Init ==
    /\ config \in Configs
    /\ pc = "start"
    /\ segments = << >>
    /\ i = 0
    /\ output_paths = << >>
    /\ result = "running"
    /\ files = {}
    /\ partial = {}
    /\ subtitles = NoSubtitles
    /\ rendered = << >>
    /\ stages = << >>
    /\ transcribeRaised = FALSE
    /\ captioned = FALSE
    /\ failed = {}
    /\ encCalls = << >>
    /\ encResult = "pending"
    /\ outSize = 0
    /\ ComponentsIdle
    /\ IdleBut("")

\* ---- process_video: before the loop --------------------------------------
\* return of process_video with the list built so far
Return(paths) ==
    /\ pc' = "done"
    /\ result' = "returned"
    /\ output_paths' = paths

\* the outer handler: log and re-raise
RaiseGlobal ==
    /\ pc' = "done"
    /\ result' = "raised"
    /\ UNCHANGED output_paths

\* existence check and VideoFileClip(video_path)
OpenSource ==
    /\ pc = "start"
    /\ \/ /\ config.source = "missing"
          /\ Return(<< >>)
       \/ /\ config.source = "unreadable"
          /\ RaiseGlobal
       \/ /\ config.source = "ok"
          /\ pc' = "split"
          /\ UNCHANGED << result, output_paths >>
    /\ UNCHANGED << compVars, config, segments, i, files, partial, failed, segVars, encVars >>

\* a split step that goes on to the segment loop whatever dry_run says
SplitIgnoringDryRun ==
    /\ pc = "split"
    /\ segments' = SplitVideo(config.duration, config.segment_duration)
    /\ pc' = "loop"
    /\ UNCHANGED << result, output_paths >>
    /\ UNCHANGED << compVars, config, i, files, partial, failed, segVars, encVars >>

\* segments = self._split_video(video); the dry_run exit
Split ==
    /\ pc = "split"
    /\ segments' = SplitVideo(config.duration, config.segment_duration)
    /\ IF config.dry_run
         THEN Return(<< >>)
         ELSE /\ pc' = "loop"
              /\ UNCHANGED << result, output_paths >>
    /\ UNCHANGED << compVars, config, i, files, partial, failed, segVars, encVars >>

\* ---- process_video: one segment ------------------------------------------
\* except Exception inside the loop: log the segment's error, continue with
\* the next segment
SegmentErrorAborts ==
    /\ failed' = failed \cup { i }
    /\ pc' = "done"
    /\ result' = "raised"
    /\ UNCHANGED output_paths

SegmentError ==
    /\ failed' = failed \cup { i }
    /\ pc' = "loop"
    /\ UNCHANGED << result, output_paths >>

\* for i, segment in enumerate(segments); after the loop video.close() and
\* return output_paths
LoopHead ==
    /\ pc = "loop"
    /\ IF i < Len(segments)
         THEN /\ i' = i + 1
              /\ pc' = "export"
              /\ UNCHANGED << result, output_paths >>
         ELSE /\ Return(output_paths)
              /\ UNCHANGED i
    /\ subtitles' = NoSubtitles
    /\ rendered' = << >>
    /\ stages' = << >>
    /\ transcribeRaised' = FALSE
    /\ captioned' = FALSE
    /\ encCalls' = << >>
    /\ encResult' = "pending"
    /\ outSize' = 0
    /\ UNCHANGED << compVars, config, segments, files, partial, failed >>

\* segment.write_videofile(temp_segment_<i>.mp4); a writer that raises is
\* taken to leave no file
ExportTemp ==
    /\ pc = "export"
    /\ \/ /\ files' = files \cup { TempSegment(i) }
          /\ stages' = Append(stages, "Segmented")
          /\ pc' = "transcribe"
          /\ UNCHANGED << failed, result, output_paths >>
       \/ /\ SegmentError
          /\ UNCHANGED << files, stages >>
    /\ UNCHANGED << compVars, config, segments, i, partial, subtitles, rendered,
                    transcribeRaised, captioned, encVars >>

TranscribeErrorPropagates ==
    /\ subtitles' = NoSubtitles
    /\ transcribeRaised' = TRUE
    /\ UNCHANGED stages
    /\ SegmentError

\* _generate_subtitles_for_segment, its except branch: log, return None
TranscribeError ==
    /\ subtitles' = NoSubtitles
    /\ transcribeRaised' = TRUE
    /\ stages' = Append(stages, "Transcribed")
    /\ pc' = "open"
    /\ UNCHANGED << failed, result, output_paths >>

\* subtitles = self._generate_subtitles_for_segment(...) when use_subtitles
Transcribe ==
    /\ pc = "transcribe"
    /\ IF ~config.use_subtitles
         THEN /\ subtitles' = NoSubtitles
              /\ pc' = "open"
              /\ UNCHANGED << files, stages, transcribeRaised, failed, result,
                              output_paths >>
         ELSE \/ \* write_videofile(temp_for_whisper.mp4) raises
                 /\ UNCHANGED files
                 /\ TranscribeError
              \/ \* whisper_model.transcribe raises: the removal is skipped
                 /\ files' = files \cup { TempWhisper }
                 /\ TranscribeError
              \/ \* transcription succeeds: temp removed, SRT written
                 /\ \E spans \in SpanLists :
                       subtitles' = [present |-> TRUE, text |-> "transcript",
                                     segments |-> spans]
                 /\ files' = (files \ { TempWhisper }) \cup { TempSrt }
                 /\ stages' = Append(stages, "Transcribed")
                 /\ pc' = "open"
                 /\ UNCHANGED << transcribeRaised, failed, result, output_paths >>
    /\ UNCHANGED << compVars, config, segments, i, partial, rendered, captioned, encVars >>

\* segment_clip = VideoFileClip(temp_path)
OpenClip ==
    /\ pc = "open"
    /\ \/ /\ pc' = "normalize"
          /\ UNCHANGED << failed, result, output_paths >>
       \/ SegmentError
    /\ UNCHANGED << compVars, config, segments, i, files, partial, segVars, encVars >>

\* segment_clip.w / segment_clip.h < 9/16
NarrowerThanTarget(dims) == dims[1] * 16 < dims[2] * 9

\* a normaliser that always derives the width from the height
ForceVerticalFormatCropping(dims) ==
    << (dims[2] * 9) \div 16, dims[2] >>

\* _force_vertical_format: the (w, h) of the composite it returns.  A clip
\* wider than 9:16 gets a background of (w, int(w / (9/16))); any other clip
\* gets a background of (int(h * 9/16), h)
ForceVerticalFormat(dims) ==
    IF dims[1] * 16 > dims[2] * 9
      THEN << dims[1], (dims[1] * 16) \div 9 >>
      ELSE << (dims[2] * 9) \div 16, dims[2] >>

\* if self.force_vertical and w / h < 9/16: _force_vertical_format, which
\* returns the clip unchanged when it raises
ForceVertical ==
    /\ pc = "normalize"
    /\ IF config.force_vertical /\ NarrowerThanTarget(config.dims)
         THEN \/ stages' = Append(stages, "AspectCorrected")
              \/ UNCHANGED stages
         ELSE UNCHANGED stages
    /\ pc' = "captions"
    /\ UNCHANGED << compVars, config, segments, i, output_paths, result, files, partial,
                    failed, subtitles, rendered, transcribeRaised, captioned,
                    encVars >>

\* the spans _add_subtitles makes a TextClip for: for segment in
\* subtitles['segments'], every one of them
SpansToRender(spans) == spans

\* a captions step whose failure is a failure of the segment
AddSubtitlesFailureAborts ==
    /\ pc = "captions"
    /\ IF subtitles.present
         THEN \/ /\ rendered' = SpansToRender(subtitles.segments)
                 /\ captioned' = TRUE
                 /\ stages' = Append(stages, "Captioned")
                 /\ pc' = "watermark"
                 /\ UNCHANGED << failed, result, output_paths >>
              \/ /\ SegmentError
                 /\ UNCHANGED << rendered, captioned, stages >>
         ELSE /\ pc' = "watermark"
              /\ UNCHANGED << rendered, captioned, stages, failed, result,
                              output_paths >>
    /\ UNCHANGED << compVars, config, segments, i, files, partial, subtitles,
                    transcribeRaised, encVars >>

\* if subtitles: _add_subtitles(...), which returns the clip without
\* captions when composing them raises
AddSubtitles ==
    /\ pc = "captions"
    /\ IF subtitles.present
         THEN \/ /\ rendered' = SpansToRender(subtitles.segments)
                 /\ captioned' = TRUE
                 /\ stages' = Append(stages, "Captioned")
              \/ UNCHANGED << rendered, captioned, stages >>
         ELSE UNCHANGED << rendered, captioned, stages >>
    /\ pc' = "watermark"
    /\ UNCHANGED << compVars, config, segments, i, output_paths, result, files, partial,
                    failed, subtitles, transcribeRaised, encVars >>

\* if self.add_watermark and self.watermark_path: _add_watermark, which
\* returns the clip unchanged when the image is missing or it raises
Watermark ==
    /\ pc = "watermark"
    /\ IF config.add_watermark
         THEN \/ stages' = Append(stages, "Watermarked")
              \/ UNCHANGED stages
         ELSE UNCHANGED stages
    /\ pc' = "write"
    /\ UNCHANGED << compVars, config, segments, i, output_paths, result, files, partial,
                    failed, subtitles, rendered, transcribeRaised, captioned,
                    encVars >>

\* _generate_metadata (never raises; the last reader of subtitles) and
\* segment_with_subs.write_videofile(temp_with_subs_<i>.mp4)
WriteWithSubs ==
    /\ pc = "write"
    /\ \/ /\ files' = files \cup { TempWithSubs(i) }
          /\ pc' = "save"
          /\ UNCHANGED << failed, result, output_paths >>
       \/ /\ SegmentError
          /\ UNCHANGED files
    /\ subtitles' = NoSubtitles
    /\ rendered' = << >>
    /\ UNCHANGED << compVars, config, segments, i, partial, stages, transcribeRaised,
                    captioned, encVars >>

\* output_path = self._save_video(...): writes the metadata sidecar and
\* returns the path; it re-raises what it catches
SaveVideo ==
    /\ pc = "save"
    /\ \/ /\ files' = files \cup { OutSidecar(i) }
          /\ pc' = IF config.reencode_with_ffmpeg THEN "enc_probe" ELSE "append"
          /\ UNCHANGED << failed, result, output_paths >>
       \/ /\ SegmentError
          /\ UNCHANGED files
    /\ UNCHANGED << compVars, config, segments, i, partial, segVars, encVars >>

\* ---- VideoEncoder.reencode_video -----------------------------------------
\* return of reencode_video / _reduce_file_size with value ok
EncoderReturns(ok) ==
    /\ encResult' = IF ok THEN "True" ELSE "False"
    /\ pc' = "enc_ret"

ExceedsLimitInclusive(size) == size >= max_size

\* if output_size > self.max_size
ExceedsLimit(size) == size > max_size

WithinLimitUnchecked(size) == TRUE

\* return final_size <= self.max_size
WithinLimit(size) == size <= max_size

\* info = self.analyze_video(input_path); if not info: return False
EncProbe ==
    /\ pc = "enc_probe"
    /\ \/ /\ pc' = "enc_primary"
          /\ UNCHANGED encResult
       \/ EncoderReturns(FALSE)
    /\ UNCHANGED << compVars, config, segments, i, output_paths, result, files, partial,
                    failed, segVars, encCalls, outSize >>

\* result = subprocess.run(cmd); a non-zero exit returns False and may leave
\* an incomplete file at output_path
EncPrimary ==
    /\ pc = "enc_primary"
    /\ \/ /\ encCalls' = Append(encCalls, [pass |-> "primary", returncode |-> 0])
          /\ files' = files \cup { OutVideo(i) }
          /\ \E size \in Sizes : outSize' = size
          /\ stages' = Append(stages, "Encoded")
          /\ pc' = "enc_size"
          /\ UNCHANGED << encResult, partial >>
       \/ /\ encCalls' = Append(encCalls, [pass |-> "primary", returncode |-> 1])
          /\ \E left \in BOOLEAN :
                IF left THEN /\ files' = files \cup { OutVideo(i) }
                             /\ partial' = partial \cup { OutVideo(i) }
                        ELSE UNCHANGED << files, partial >>
          /\ EncoderReturns(FALSE)
          /\ UNCHANGED << outSize, stages >>
    /\ UNCHANGED << compVars, config, segments, i, output_paths, result, failed, subtitles,
                    rendered, transcribeRaised, captioned >>

\* the size check after the primary pass
EncSizeCheck ==
    /\ pc = "enc_size"
    /\ stages' = Append(stages, "SizeChecked")
    /\ IF ExceedsLimit(outSize)
         THEN /\ pc' = "red_probe"
              /\ UNCHANGED encResult
         ELSE EncoderReturns(TRUE)
    /\ UNCHANGED << compVars, config, segments, i, output_paths, result, files, partial,
                    failed, subtitles, rendered, transcribeRaised, captioned,
                    encCalls, outSize >>

\* _reduce_file_size: the probe, and the bitrate computation, which raises
\* (and so returns False) for a zero duration
ReduceProbe ==
    /\ pc = "red_probe"
    /\ \/ /\ pc' = "red_encode"
          /\ UNCHANGED encResult
       \/ EncoderReturns(FALSE)
    /\ UNCHANGED << compVars, config, segments, i, output_paths, result, files, partial,
                    failed, segVars, encCalls, outSize >>

\* _reduce_file_size: the one reduction pass to <video_path>.temp.mp4, then
\* os.replace onto video_path and the final size check; a non-zero exit
\* returns False and may leave the temp file
ReduceEncode ==
    /\ pc = "red_encode"
    /\ \/ /\ encCalls' = Append(encCalls, [pass |-> "reduction", returncode |-> 0])
          /\ \E size \in Sizes :
                /\ outSize' = size
                /\ EncoderReturns(WithinLimit(size))
          /\ UNCHANGED << files, partial >>
       \/ /\ encCalls' = Append(encCalls, [pass |-> "reduction", returncode |-> 1])
          /\ \E left \in BOOLEAN :
                IF left THEN /\ files' = files \cup { ReduceTemp(i) }
                             /\ partial' = partial \cup { ReduceTemp(i) }
                        ELSE UNCHANGED << files, partial >>
          /\ EncoderReturns(FALSE)
          /\ UNCHANGED outSize
    /\ UNCHANGED << compVars, config, segments, i, output_paths, result, failed, segVars >>

\* ---- process_video: after the encode -------------------------------------
\* if not self.encoder.reencode_video(...): log, continue
EncoderReturn ==
    /\ pc = "enc_ret"
    /\ IF encResult = "True"
         THEN /\ pc' = "append"
              /\ UNCHANGED << failed, result, output_paths >>
         ELSE SegmentError
    /\ UNCHANGED << compVars, config, segments, i, files, partial, segVars, encVars >>

\* output_paths.append(str(output_path))
AppendPath ==
    /\ pc = "append"
    /\ output_paths' = Append(output_paths, i)
    /\ pc' = "cleanup"
    /\ UNCHANGED << compVars, config, segments, i, result, files, partial, failed,
                    segVars, encVars >>

\* the files the success path removes: for temp_file in [temp_path, temp_with_subs]
CleanupList(k) == { TempSegment(k), TempWithSubs(k) }

\* the cleanup loop, then segment_with_subs.close() and segment_clip.close()
\* (removing a file and releasing a clip are taken not to fail)
Cleanup ==
    /\ pc = "cleanup"
    /\ files' = files \ CleanupList(i)
    /\ pc' = "loop"
    /\ UNCHANGED << compVars, config, segments, i, output_paths, result, partial, failed,
                    segVars, encVars >>

Next == OpenSource \/ Split \/ LoopHead \/ ExportTemp \/ Transcribe \/ OpenClip
        \/ ForceVertical \/ AddSubtitles \/ Watermark \/ WriteWithSubs \/ SaveVideo
        \/ EncProbe \/ EncPrimary \/ EncSizeCheck \/ ReduceProbe \/ ReduceEncode
        \/ EncoderReturn \/ AppendPath \/ Cleanup

Spec == Init /\ [][Next]_vars

\* the program is sequential and keeps running until it returns or raises
FairSpec == Spec /\ WF_vars(Next)

\* ==== the other components ================================================
\* process_video is not running: nothing of the pipeline moves
PipelineIdle ==
    /\ config = [ duration |-> 1, segment_duration |-> 1, dims |-> << 1080, 1920 >>,
                  use_subtitles |-> FALSE, force_vertical |-> FALSE,
                  add_watermark |-> FALSE, reencode_with_ffmpeg |-> FALSE,
                  source |-> "ok", dry_run |-> FALSE ]
    /\ pc = "idle"
    /\ segments = << >>
    /\ i = 0
    /\ output_paths = << >>
    /\ result = "running"
    /\ files = {}
    /\ partial = {}
    /\ subtitles = NoSubtitles
    /\ rendered = << >>
    /\ stages = << >>
    /\ transcribeRaised = FALSE
    /\ captioned = FALSE
    /\ failed = {}
    /\ encCalls = << >>
    /\ encResult = "pending"
    /\ outSize = 0

\* ---- _format_timestamp / _srt_time_to_seconds ----------------------------
\* A time is given in whole milliseconds k and stands for the double nearest
\* to k / 1000, which is what a span time of k ms is in the program.
OneHourMs == 3600000

\* the times converted: up to MaxMillis ms, and the same past one hour
Times == (0..MaxMillis) \cup { OneHourMs + k : k \in 0..MaxMillis }

RECURSIVE Pow2(_)
Pow2(n) == IF n <= 0 THEN 1 ELSE 2 * Pow2(n - 1)

\* 2^n modulo m, without ever holding 2^n
RECURSIVE Pow2Mod(_, _)
Pow2Mod(n, m) == IF n = 0 THEN 1 % m ELSE (2 * Pow2Mod(n - 1, m)) % m

\* floor(log2(num / den)) for num > 0, den > 0: the binary exponent of the
\* double nearest to num / den
RECURSIVE BinaryExponent(_, _)
BinaryExponent(num, den) ==
    IF num >= 2 * den THEN BinaryExponent(num, 2 * den) + 1
    ELSE IF num < den THEN BinaryExponent(2 * num, den) - 1
    ELSE 0

\* int((seconds % 1) * 1000) in IEEE-754 double arithmetic, for seconds the
\* double nearest to k / 1000.  With ex the binary exponent of that double
\* its 53-bit significand is k * 2^(52 - ex) / 1000 rounded to nearest; r is
\* the remainder of that division (never exactly half: r is a multiple of 8).
\*   r = 0:    the double is exactly k / 1000;
\*   r > 500:  the double lies above k / 1000;
\*   r < 500:  the double lies below k / 1000 by (r / 1000) * 2^(ex - 52).
\* seconds % 60 and seconds % 1 are exact, so in the last case the product
\* with 1000 is K - r * 2^(ex - 52) before rounding, K = k mod 1000; it
\* rounds up to K only if that deficit is at most half the spacing
\* 2^(eK - 52) of the doubles just below K, and otherwise stays below K and
\* int() truncates it to K - 1.
MillisecondsField(k) ==
    LET K  == k % 1000
        ex == BinaryExponent(k, 1000)
        r  == (K * Pow2Mod(52 - ex, 1000)) % 1000
        e0 == BinaryExponent(K, 1)
        eK == IF K = Pow2(e0) THEN e0 - 1 ELSE e0
        roundsBackUp ==
            IF ex >= 0 THEN eK >= 1 /\ r * Pow2(ex) <= Pow2(eK - 1)
                       ELSE eK - 1 - ex >= 0 /\ r <= Pow2(eK - 1 - ex)
    IN  IF K = 0 \/ r = 0 \/ r > 500 \/ roundsBackUp THEN K ELSE K - 1

\* _format_timestamp(seconds): the fields of "HH:MM:SS,mmm".  // and the
\* integer parts are exact in double arithmetic; the milliseconds are not
FormatTimestampFields(k) ==
    [ hours        |-> k \div OneHourMs,
      minutes      |-> (k % OneHourMs) \div 60000,
      seconds      |-> (k % 60000) \div 1000,
      milliseconds |-> MillisecondsField(k) ]

\* _srt_time_to_seconds("HH:MM:SS,mmm") = float(HH) * 3600 + float(MM) * 60
\* + float("SS.mmm"), here in milliseconds: the double it returns is within
\* 10^-9 s of this value
SrtTimeToSeconds(srt) ==
    srt.hours * OneHourMs + srt.minutes * 60000 + srt.seconds * 1000
        + srt.milliseconds

\* a span time taken from the transcription
TimestampInit ==
    /\ PipelineIdle
    /\ IdleBut("")
    /\ publisher = PublisherIdle
    /\ quality = QualityIdle
    /\ collector = CollectorIdle
    /\ trends = TrendsIdle
    /\ \E k \in Times :
          codec = [pc |-> "time", time |-> k, srt |-> NoSrt, seconds |-> 0]

\* _create_srt_file: start = self._format_timestamp(segment['start'])
FormatTimestamp ==
    /\ codec.pc = "time"
    /\ codec' = [codec EXCEPT !.pc = "srt",
                              !.srt = FormatTimestampFields(codec.time)]
    /\ UNCHANGED notCodec

\* _convert_srt_to_drawtext: start_seconds = self._srt_time_to_seconds(start_time)
ConvertSrtToDrawtext ==
    /\ codec.pc = "srt"
    /\ codec' = [codec EXCEPT !.pc = "drawtext",
                              !.seconds = SrtTimeToSeconds(codec.srt)]
    /\ UNCHANGED notCodec

TimestampNext == FormatTimestamp \/ ConvertSrtToDrawtext

TimestampSpec == TimestampInit /\ [][TimestampNext]_vars

\* ---- AutoPublisher --------------------------------------------------------
\* config['video_settings'] and config['api']['tiktok'] of the publisher
PublisherConfigs ==
    [ max_file_size          : 1..(MaxFileSize - 1),
      max_hashtags           : 1..(MaxHashtags - 1),
      max_description_length : 1..(MaxDescription - 1) ]

\* the file at video_path: absent, or of some size
VideoFiles ==
    { [exists |-> FALSE, size |-> 0] }
        \cup { [exists |-> TRUE, size |-> n] : n \in 0..MaxFileSize }

\* a description of n characters, as character codes 'a', 'b', ...
Description(n) == [j \in 1..n |-> 96 + j]

\* a list of n hashtags, each named by its number
Hashtags(n) == [j \in 1..n |-> j]

\* the metadata dictionaries; metadata.get gives '' and [] for absent keys
Metadatas ==
    { [description |-> Description(d), hashtags |-> Hashtags(h)] :
        d \in 0..MaxDescription, h \in 0..MaxHashtags }

\* seq[:n]
Prefix(seq, n) == SubSeq(seq, 1, Min(n, Len(seq)))

\* "..." as character codes
Ellipsis == << 46, 46, 46 >>

\* a size check that lets every file through
CheckFileSizeAlways(size, max) == TRUE

\* _check_file_size: file_size <= max_size
CheckFileSize(size, max) == size <= max

\* _prepare_post_data: hashtags cut to max_hashtags; a description longer
\* than max_description_length cut to that length and followed by "..."
PreparePostData(metadata, cfg) ==
    [ hashtags    |-> Prefix(metadata.hashtags, cfg.max_hashtags),
      description |->
          IF Len(metadata.description) > cfg.max_description_length
            THEN Prefix(metadata.description, cfg.max_description_length)
                     \o Ellipsis
            ELSE metadata.description ]

\* publish_video(video_path, metadata) has been called
PublisherInit ==
    /\ PipelineIdle
    /\ IdleBut("")
    /\ codec = CodecIdle
    /\ quality = QualityIdle
    /\ collector = CollectorIdle
    /\ trends = TrendsIdle
    /\ \E c \in PublisherConfigs, v \in VideoFiles, m \in Metadatas :
          publisher = [PublisherIdle EXCEPT !.pc = "check", !.cfg = c,
                                            !.video = v, !.metadata = m]

\* the except clause of publish_video: log and re-raise
PublishRaises(error) ==
    publisher' = [publisher EXCEPT !.pc = "done", !.result = "raised",
                                   !.error = error]

\* if not self._check_file_size(video_path): raise ValueError; stat() of a
\* missing file raises FileNotFoundError
PublishCheckSize ==
    /\ publisher.pc = "check"
    /\ IF ~publisher.video.exists
         THEN PublishRaises("FileNotFoundError")
         ELSE IF ~CheckFileSize(publisher.video.size, publisher.cfg.max_file_size)
           THEN PublishRaises("ValueError")
           ELSE publisher' = [publisher EXCEPT !.pc = "prepare"]
    /\ UNCHANGED notPublisher

\* post_data = self._prepare_post_data(video_path, metadata)
PublishPrepare ==
    /\ publisher.pc = "prepare"
    /\ publisher' = [publisher EXCEPT
          !.pc = "api",
          !.post_data = PreparePostData(publisher.metadata, publisher.cfg)]
    /\ UNCHANGED notPublisher

\* response = self._mock_tiktok_api(post_data)
MockTiktokApi ==
    /\ publisher.pc = "api"
    /\ publisher' = [publisher EXCEPT !.pc = "report", !.api_called = TRUE,
                                      !.status = "success"]
    /\ UNCHANGED notPublisher

\* self._save_publish_report(response, video_path); return response
\* (writing the report beside an existing video is taken not to fail)
SavePublishReport ==
    /\ publisher.pc = "report"
    /\ publisher' = [publisher EXCEPT !.pc = "done",
                                      !.reports = publisher.reports + 1,
                                      !.result = "returned"]
    /\ UNCHANGED notPublisher

PublisherNext ==
    PublishCheckSize \/ PublishPrepare \/ MockTiktokApi \/ SavePublishReport

PublisherSpec == PublisherInit /\ [][PublisherNext]_vars

\* ---- QualityChecker -------------------------------------------------------
VisualMetrics == { "brightness", "contrast", "sharpness" }

AudioMetrics == { "volume", "noise" }

\* _calculate_overall_quality: good_metrics / total_metrics >= 0.7, with a
\* score of 0 when no metric carries a status
CalculateOverallQuality(visual, audio) ==
    LET total == Cardinality(visual.names) + Cardinality(audio.names)
        good  == Cardinality(visual.good) + Cardinality(audio.good)
    IN  IF total > 0 /\ 10 * good >= 7 * total THEN "good" ELSE "poor"

\* check_video(video_path) has been called on a video file; `measured` is
\* the set of metrics the analysis will find within their thresholds
QualityInit ==
    /\ PipelineIdle
    /\ IdleBut("")
    /\ codec = CodecIdle
    /\ publisher = PublisherIdle
    /\ collector = CollectorIdle
    /\ trends = TrendsIdle
    /\ \E o \in BOOLEAN, a \in BOOLEAN,
          g \in SUBSET (VisualMetrics \cup AudioMetrics) :
          quality = [QualityIdle EXCEPT !.pc = "visual", !.opens = o,
                                        !.has_audio = a, !.measured = g]

\* the except clause of check_video: log and re-raise
QualityRaises ==
    quality' = [quality EXCEPT !.pc = "done", !.result = "raised"]

\* _analyze_visual_quality: raises when the capture does not open
AnalyzeVisualQuality ==
    /\ quality.pc = "visual"
    /\ IF quality.opens
         THEN quality' = [quality EXCEPT
                !.pc = "audio",
                !.visual = [names |-> VisualMetrics,
                            good  |-> quality.measured \cap VisualMetrics]]
         ELSE QualityRaises
    /\ UNCHANGED notQuality

\* _analyze_audio_quality: without an audio track the dictionary holds two
\* strings and no metric entry; the temporary .wav is written and unlinked
AnalyzeAudioQuality ==
    /\ quality.pc = "audio"
    /\ quality' = [quality EXCEPT
          !.pc = "overall",
          !.audio = IF quality.has_audio
                      THEN [names |-> AudioMetrics,
                            good  |-> quality.measured \cap AudioMetrics]
                      ELSE NoMetrics]
    /\ UNCHANGED notQuality

\* results = {..., 'overall_quality': self._calculate_overall_quality(...)}
CompileResults ==
    /\ quality.pc = "overall"
    /\ quality' = [quality EXCEPT
          !.pc = "save",
          !.overall = CalculateOverallQuality(quality.visual, quality.audio)]
    /\ UNCHANGED notQuality

\* _save_results: output_path = Path(video_path); open(output_path, 'w') and
\* json.dump(results): the report is written to video_path itself.  Then
\* return results
SaveResults ==
    /\ quality.pc = "save"
    /\ quality' = [quality EXCEPT !.pc = "done", !.content = "report",
                                  !.result = "returned"]
    /\ UNCHANGED notQuality

QualityNext ==
    AnalyzeVisualQuality \/ AnalyzeAudioQuality \/ CompileResults \/ SaveResults

QualitySpec == QualityInit /\ [][QualityNext]_vars

\* ---- ContentCollector -----------------------------------------------------
\* what the details call can return for one video: an item _format_video_data
\* raises on or not, at or over max_duration, at or under min_views, whose
\* download succeeds or not
VideoItems ==
    [ wellformed : BOOLEAN,
      duration   : { max_duration, max_duration + 1 },
      views      : { min_views - 1, min_views },
      downloads  : BOOLEAN ]

\* a criteria test that looks at the duration only
MeetsCriteriaDurationOnly(video_data) ==
    video_data.duration <= max_duration

\* _meets_criteria: False if duration > max_duration, False if
\* views < min_views, True otherwise
MeetsCriteria(video_data) ==
    /\ ~(video_data.duration > max_duration)
    /\ ~(video_data.views < min_views)

\* collect_content(keywords) has been called; collected_videos = []
CollectorInit ==
    /\ PipelineIdle
    /\ IdleBut("")
    /\ codec = CodecIdle
    /\ publisher = PublisherIdle
    /\ quality = QualityIdle
    /\ trends = TrendsIdle
    /\ \E n \in 0..MaxKeywords :
          collector = [CollectorIdle EXCEPT !.pc = "keyword", !.keywords = n]

\* for keyword in keywords: ...; return collected_videos
NextKeyword ==
    /\ collector.pc = "keyword"
    /\ IF collector.k = collector.keywords
         THEN collector' = [collector EXCEPT !.pc = "done", !.result = "returned"]
         ELSE collector' = [collector EXCEPT !.pc = "search", !.k = collector.k + 1]
    /\ UNCHANGED notCollector

\* except Exception around one keyword: log, continue
KeywordError ==
    collector' = [collector EXCEPT !.pc = "keyword",
                                   !.errors = collector.errors + 1]

\* search_results = self._search_videos(keyword, max_results): raises after
\* its retries, returns nothing (continue), or returns some items
SearchVideos ==
    /\ collector.pc = "search"
    /\ \/ KeywordError
       \/ collector' = [collector EXCEPT !.pc = "keyword"]
       \/ \E n \in 1..MaxVideos :
             collector' = [collector EXCEPT !.pc = "details", !.found = n]
    /\ UNCHANGED notCollector

\* video_details = self._get_video_details(video_ids): raises, or returns
\* the details of some of the videos found
GetVideoDetails ==
    /\ collector.pc = "details"
    /\ \/ KeywordError
       \/ \E n \in 0..collector.found :
             collector' = [collector EXCEPT
                 !.pc = IF n = 0 THEN "keyword" ELSE "video",
                 !.n = n, !.j = 0,
                 !.listed = collector.listed + n]
    /\ UNCHANGED notCollector

\* one pass of `for video in video_details`: _format_video_data, which may
\* raise (logged, continue); _meets_criteria; _download_video, which returns
\* False on any error; collected_videos.append(video_data)
ProcessVideo ==
    /\ collector.pc = "video"
    /\ \E item \in VideoItems :
          LET video == [id |-> << collector.k, collector.j + 1 >>,
                        wellformed |-> item.wellformed,
                        duration |-> item.duration, views |-> item.views,
                        downloads |-> item.downloads]
              appended == /\ video.wellformed
                          /\ MeetsCriteria(video)
                          /\ video.downloads
          IN  collector' = [collector EXCEPT
                  !.pc = IF collector.j + 1 = collector.n THEN "keyword"
                                                         ELSE "video",
                  !.j = collector.j + 1,
                  !.video = video,
                  !.handled = collector.handled + 1,
                  !.errors = IF video.wellformed THEN collector.errors
                                                 ELSE collector.errors + 1,
                  !.collected = IF appended
                                  THEN Append(collector.collected, video)
                                  ELSE collector.collected]
    /\ UNCHANGED notCollector

CollectorNext == NextKeyword \/ SearchVideos \/ GetVideoDetails \/ ProcessVideo

CollectorSpec == CollectorInit /\ [][CollectorNext]_vars

\* ---- TrendHunter ----------------------------------------------------------
\* a Trend object: platform, name, metadata.source; n tells apart the trends
\* that do not come from the backup list
Trend(platform, name, source, n) ==
    [platform |-> platform, name |-> name, source |-> source, n |-> n]

\* the names of backup_trends, in the order of the list
BackupNames ==
    << "#fyp", "#foryou", "#viral", "#trending", "#dance", "#music", "#funny",
       "#comedy", "#tutorial", "#food" >>

\* a failure path that hands back no trend at all
GetBackupTrendsNone == << >>

\* _get_backup_trends: one Trend per entry of backup_trends, in order
GetBackupTrends ==
    [k \in 1..Len(BackupNames) |-> Trend("tiktok", BackupNames[k], "backup", 0)]

\* n trends read from the cache or built from the fetched data
ListedTrends(platform, source, n) ==
    [k \in 1..n |-> Trend(platform, "listed", source, k)]

\* what the cache file can be when find_trends is called
CacheStates == { "none", "stale", "unreadable", "empty", "fresh" }

\* find_trends() has been called; trends = []
TrendsInit ==
    /\ PipelineIdle
    /\ IdleBut("")
    /\ codec = CodecIdle
    /\ publisher = PublisherIdle
    /\ quality = QualityIdle
    /\ collector = CollectorIdle
    /\ \E c \in CacheStates :
          trends = [TrendsIdle EXCEPT !.pc = "cache", !.cache = c]

\* _get_tiktok_trends returns the backup list
ReturnBackup(cause) ==
    [trends EXCEPT !.pc = "reddit", !.fetch = cause, !.tiktok = GetBackupTrends]

\* cached_trends = self._get_cached_trends('tiktok'); if cached_trends:
\* return cached_trends.  A missing, old or unreadable file gives None, and
\* an empty cached list is falsy
GetCachedTrends ==
    /\ trends.pc = "cache"
    /\ IF trends.cache = "fresh"
         THEN \E n \in 1..MaxItems :
                trends' = [trends EXCEPT
                    !.pc = "reddit",
                    !.tiktok = ListedTrends("tiktok", "cache", n)]
         ELSE trends' = [trends EXCEPT !.pc = "fetch"]
    /\ UNCHANGED notTrends

\* raw_data = self._fetch_raw_trend_data('tiktok'), retried up to
\* stop_after_attempt(3): an attempt raises, or returns nothing (falsy), or
\* returns data holding some challenge items, well-formed or not
FetchRawTrendData ==
    /\ trends.pc = "fetch"
    /\ \/ IF trends.attempts + 1 = max_attempts
            THEN trends' = [ReturnBackup("raised") EXCEPT
                               !.attempts = trends.attempts + 1]
            ELSE trends' = [trends EXCEPT !.attempts = trends.attempts + 1]
       \/ trends' = [ReturnBackup("no data") EXCEPT
                         !.attempts = trends.attempts + 1]
       \/ \E n \in 0..MaxItems, ok \in BOOLEAN :
             trends' = [trends EXCEPT !.pc = "parse", !.fetch = "data",
                                     !.attempts = trends.attempts + 1,
                                     !.items = n, !.parses = ok]
    /\ UNCHANGED notTrends

\* trends_data = self._parse_trend_data(raw_data, 'tiktok'), which returns []
\* when it raises; if not trends_data: return self._get_backup_trends()
ParseTrendData ==
    /\ trends.pc = "parse"
    /\ IF ~trends.parses \/ trends.items = 0
         THEN trends' = ReturnBackup("no trend parsed")
         ELSE trends' = [trends EXCEPT !.pc = "transform"]
    /\ UNCHANGED notTrends

\* trends = self._transform_to_trend_objects(trends_data, 'tiktok'), which
\* skips the entries it cannot build a Trend from; self._cache_trends, which
\* only warns when it fails; return trends
TransformToTrendObjects ==
    /\ trends.pc = "transform"
    /\ \E n \in 0..trends.items, written \in BOOLEAN :
          trends' = [trends EXCEPT
              !.pc = "reddit",
              !.tiktok = ListedTrends("tiktok", "api", n),
              !.cached = written]
    /\ UNCHANGED notTrends

\* trends.extend(tiktok_trends); reddit_trends = self._get_reddit_trends(),
\* which returns [] on any error; trends.extend(reddit_trends)
GetRedditTrends ==
    /\ trends.pc = "reddit"
    /\ \E n \in 0..MaxItems :
          trends' = [trends EXCEPT
              !.pc = "save",
              !.trends = trends.tiktok \o ListedTrends("reddit", "api", n)]
    /\ UNCHANGED notTrends

\* self._save_trends(trends); return trends (writing the JSON file into the
\* package's data directory is taken not to fail)
SaveTrends ==
    /\ trends.pc = "save"
    /\ trends' = [trends EXCEPT !.pc = "done", !.result = "returned"]
    /\ UNCHANGED notTrends

TrendsNext ==
    GetCachedTrends \/ FetchRawTrendData \/ ParseTrendData
        \/ TransformToTrendObjects \/ GetRedditTrends \/ SaveTrends

TrendsSpec == TrendsInit /\ [][TrendsNext]_vars

\* ---- _add_subtitles_ffmpeg -------------------------------------------------
\* font_size = max(24, min(48, int(min_dim * 0.05)))
FontSize(dims) ==
    LET min_dim == Min(dims[1], dims[2])
        scaled  == (min_dim * 5) \div 100
    IN  IF scaled < 24 THEN 24 ELSE Min(48, scaled)

\* what one subprocess.run of a renderer can come to: the process could not
\* be started (run raises), or it exits with code 0 or 1
RunOutcomes ==
    { [launched |-> FALSE, returncode |-> 0],
      [launched |-> TRUE,  returncode |-> 0],
      [launched |-> TRUE,  returncode |-> 1] }

ExitedZero(call) == call.launched /\ call.returncode = 0

ExitedNonZero(call) == call.launched /\ call.returncode # 0

\* _add_subtitles_ffmpeg(video_path, srt_path, output_path) has been called;
\* the SRT file, when there is one, holds up to MaxSpans entries
RendererInit ==
    /\ PipelineIdle
    /\ ComponentsIdle
    /\ IdleBut("renderer")
    /\ \E v \in BOOLEAN, s \in BOOLEAN, n \in 0..MaxSpans, d \in Dimensions :
          renderer = [RendererIdle EXCEPT !.pc = "check", !.video = v,
                                          !.srt = s, !.entries = n, !.dims = d]

\* return of _add_subtitles_ffmpeg with value ok
RendererReturns(ok) ==
    [renderer EXCEPT !.pc = "done",
                     !.result = IF ok THEN "True" ELSE "False"]

\* if not os.path.exists(video_path) / (srt_path): return False
CheckRendererInputs ==
    /\ renderer.pc = "check"
    /\ IF renderer.video /\ renderer.srt
         THEN renderer' = [renderer EXCEPT !.pc = "probe"]
         ELSE renderer' = RendererReturns(FALSE)
    /\ UNCHANGED notRenderer

\* ffprobe for width and height: a non-zero exit returns False, output that
\* cannot be read raises (False); then the font size
ProbeDimensions ==
    /\ renderer.pc = "probe"
    /\ \/ renderer' = RendererReturns(FALSE)
       \/ renderer' = [renderer EXCEPT !.pc = "ass",
                                       !.font_size = FontSize(renderer.dims)]
    /\ UNCHANGED notRenderer

\* the ASS style file and one Dialogue line per SRT entry; a failing write
\* raises (False) and leaves what was written
WriteAssFile ==
    /\ renderer.pc = "ass"
    /\ \/ renderer' = [RendererReturns(FALSE) EXCEPT !.ass = "written"]
       \/ renderer' = [renderer EXCEPT !.pc = "libass", !.ass = "written"]
    /\ UNCHANGED notRenderer

\* a libass step that goes on to drawtext whatever the exit code
RenderLibassThenDrawtext ==
    /\ renderer.pc = "libass"
    /\ \E run \in RunOutcomes :
          LET call == [renderer |-> "libass", launched |-> run.launched,
                       returncode |-> run.returncode]
          IN  renderer' = [renderer EXCEPT !.pc = "drawtext", !.ass = "removed",
                                          !.calls = Append(renderer.calls, call)]
    /\ UNCHANGED notRenderer

\* subprocess.run of ffmpeg with the ass filter; _cleanup_temp_files of the
\* ASS file; exit code 0 returns True, a non-zero one goes on to drawtext;
\* run raising returns False through the except clause, the ASS file left
RenderLibass ==
    /\ renderer.pc = "libass"
    /\ \E run \in RunOutcomes :
          LET call == [renderer |-> "libass", launched |-> run.launched,
                       returncode |-> run.returncode]
              called == Append(renderer.calls, call)
          IN  IF ~call.launched
                THEN renderer' = [RendererReturns(FALSE) EXCEPT !.calls = called]
                ELSE IF call.returncode = 0
                  THEN renderer' = [RendererReturns(TRUE) EXCEPT
                                       !.calls = called, !.ass = "removed"]
                  ELSE renderer' = [renderer EXCEPT
                                       !.pc = "drawtext", !.calls = called,
                                       !.ass = "removed"]
    /\ UNCHANGED notRenderer

\* _convert_srt_to_drawtext (which returns "" when it fails) and
\* subprocess.run of ffmpeg with the drawtext filter: True on exit code 0,
\* False otherwise
RenderDrawtext ==
    /\ renderer.pc = "drawtext"
    /\ \E run \in RunOutcomes :
          LET call == [renderer |-> "drawtext", launched |-> run.launched,
                       returncode |-> run.returncode]
          IN  renderer' = [RendererReturns(ExitedZero(call)) EXCEPT
                              !.calls = Append(renderer.calls, call)]
    /\ UNCHANGED notRenderer

RendererNext ==
    CheckRendererInputs \/ ProbeDimensions \/ WriteAssFile \/ RenderLibass
        \/ RenderDrawtext

RendererSpec == RendererInit /\ [][RendererNext]_vars

\* ---- _force_vertical_format ------------------------------------------------
\* clip sizes: every (w, h) up to MaxSide, and the sizes of real sources
ClipSizes == ((1..MaxSide) \X (1..MaxSide)) \cup Dimensions

\* clip.w / clip.h > 9/16
WiderThanTarget(dims) == dims[1] * 16 > dims[2] * 9

\* where _force_vertical_format puts the clip on the background:
\* ('center', padding) with padding = (new_height - clip.h) // 2 for a clip
\* wider than the target, (padding, 'center') with
\* padding = (new_width - clip.w) // 2 otherwise; 'center' on the axis
\* that was kept is offset 0
ContentOffset(dims) ==
    LET size == ForceVerticalFormat(dims)
    IN  IF WiderThanTarget(dims)
          THEN << 0, (size[2] - dims[2]) \div 2 >>
          ELSE << (size[1] - dims[1]) \div 2, 0 >>

\* _force_vertical_format(clip) has been called
FramingInit ==
    /\ PipelineIdle
    /\ ComponentsIdle
    /\ IdleBut("framing")
    /\ \E d \in ClipSizes :
          framing = [FramingIdle EXCEPT !.pc = "clip", !.dims = d]

\* final = CompositeVideoClip([bg, clip.set_position(video_pos)]): the
\* composite has the size of the background and holds the clip as it is
ComposeOnBackground ==
    /\ framing.pc = "clip"
    /\ framing' = [framing EXCEPT
          !.pc = "composite",
          !.size = ForceVerticalFormat(framing.dims),
          !.content = framing.dims,
          !.offset = ContentOffset(framing.dims)]
    /\ UNCHANGED notFraming

\* except Exception: return clip
FramingRaises ==
    /\ framing.pc = "clip"
    /\ framing' = [framing EXCEPT
          !.pc = "unchanged",
          !.size = framing.dims,
          !.content = framing.dims]
    /\ UNCHANGED notFraming

FramingNext ==
    \/ ComposeOnBackground
    \/ FramingRaises

FramingSpec == FramingInit /\ [][FramingNext]_vars

\* ---- the rate arguments of the two encode passes ---------------------------
\* A rate argument of ffmpeg is a number followed by a unit; the number is
\* kept in halves, since 1.5 times an integer may end in .5

\* self.bitrate: an integer followed by M or k ('2M' by default)
TargetBitrates == [ value : 1..MaxBitrate, unit : { "M", "k" } ]

\* f"{int(self.bitrate[:-1]) * 1.5}M"
PrimaryMaxrate(bitrate) == [halves |-> 3 * bitrate.value, unit |-> "M"]

\* f"{int(self.bitrate[:-1]) * 2}M"
PrimaryBufsize(bitrate) == [halves |-> 4 * bitrate.value, unit |-> "M"]

\* int((self.max_size * 0.95 * 8192) / duration), duration in seconds
NewBitrate(duration) == (max_size * 95 * 8192) \div (100 * duration)

\* f"{int(new_bitrate * 1.5)}k"
ReduceMaxrate(new_bitrate) ==
    [halves |-> 2 * ((3 * new_bitrate) \div 2), unit |-> "k"]

\* f"{new_bitrate * 2}k"
ReduceBufsize(new_bitrate) == [halves |-> 4 * new_bitrate, unit |-> "k"]

\* VideoEncoder(config) has been built and reencode_video called
BitratesInit ==
    /\ PipelineIdle
    /\ ComponentsIdle
    /\ IdleBut("bitrates")
    /\ \E b \in TargetBitrates :
          bitrates = [BitratesIdle EXCEPT !.pc = "analyze", !.bitrate = b]

\* info = self.analyze_video(input_path); if not info: return False
AnalyzeFails ==
    /\ bitrates.pc = "analyze"
    /\ bitrates' = [bitrates EXCEPT !.pc = "false"]
    /\ UNCHANGED notBitrates

\* cmd = [...]; subprocess.run(cmd): the primary pass is invoked
PrimaryPass ==
    /\ bitrates.pc = "analyze"
    /\ bitrates' = [bitrates EXCEPT
          !.pc = "primary",
          !.maxrate = PrimaryMaxrate(bitrates.bitrate),
          !.bufsize = PrimaryBufsize(bitrates.bitrate)]
    /\ UNCHANGED notBitrates

\* if result.returncode != 0: return False
PrimaryFails ==
    /\ bitrates.pc = "primary"
    /\ bitrates' = [bitrates EXCEPT !.pc = "false"]
    /\ UNCHANGED notBitrates

\* output_size <= self.max_size: return True
SizeWithinLimit ==
    /\ bitrates.pc = "primary"
    /\ bitrates' = [bitrates EXCEPT !.pc = "true"]
    /\ UNCHANGED notBitrates

\* output_size > self.max_size: _reduce_file_size, whose probe fails
ReduceAnalyzeFails ==
    /\ bitrates.pc = "primary"
    /\ bitrates' = [bitrates EXCEPT !.pc = "reduce_false"]
    /\ UNCHANGED notBitrates

\* output_size > self.max_size: _reduce_file_size probes the duration and
\* invokes the reduction pass
ReducePass ==
    /\ bitrates.pc = "primary"
    /\ \E duration \in 1..MaxSeconds :
          LET new_bitrate == NewBitrate(duration)
          IN  bitrates' = [bitrates EXCEPT
                !.pc = "reduced",
                !.new_bitrate = new_bitrate,
                !.r_maxrate = ReduceMaxrate(new_bitrate),
                !.r_bufsize = ReduceBufsize(new_bitrate)]
    /\ UNCHANGED notBitrates

BitratesNext ==
    \/ AnalyzeFails
    \/ PrimaryPass
    \/ PrimaryFails
    \/ SizeWithinLimit
    \/ ReduceAnalyzeFails
    \/ ReducePass

BitratesSpec == BitratesInit /\ [][BitratesNext]_vars

\* ---- _calculate_overall_quality --------------------------------------------
\* what the value of one key of a metrics dictionary is: a dict whose
\* 'status' is 'good', a dict with another status, or a value that carries
\* no status (a dict without the key, or not a dict)
MetricKinds == { "good", "other", "none" }

\* the values of a metrics dictionary, in the order of its keys
MetricDicts == [ 1..MaxMetrics -> MetricKinds ]

\* for metric in metrics.values(): the loop from value k on, with the
\* counters it has reached
RECURSIVE CountMetrics(_, _, _)
CountMetrics(metrics, k, counters) ==
    IF k > Len(metrics)
      THEN counters
      ELSE CountMetrics(metrics, k + 1,
             IF metrics[k] = "none"
               THEN counters
               ELSE [total |-> counters.total + 1,
                     good  |-> counters.good +
                                 (IF metrics[k] = "good" THEN 1 ELSE 0)])

\* a scoring that requires more than 0.7
CalculateOverallScoreStrict(visual_metrics, audio_metrics) ==
    LET c == CountMetrics(audio_metrics, 1,
               CountMetrics(visual_metrics, 1, [total |-> 0, good |-> 0]))
    IN  IF c.total > 0
          THEN [good |-> c.good, total |-> c.total,
                status |-> IF 10 * c.good > 7 * c.total
                             THEN "good" ELSE "poor"]
          ELSE [good |-> 0, total |-> 1, status |-> "poor"]

\* _calculate_overall_quality: the score good_metrics / total_metrics as
\* the fraction good / total (0 / 1 when total_metrics is 0), and the
\* status 'good' if quality_score >= 0.7 else 'poor'
CalculateOverallScore(visual_metrics, audio_metrics) ==
    LET c == CountMetrics(audio_metrics, 1,
               CountMetrics(visual_metrics, 1, [total |-> 0, good |-> 0]))
    IN  IF c.total > 0
          THEN [good |-> c.good, total |-> c.total,
                status |-> IF 10 * c.good >= 7 * c.total
                             THEN "good" ELSE "poor"]
          ELSE [good |-> 0, total |-> 1, status |-> "poor"]

\* _calculate_overall_quality(visual_metrics, audio_metrics) has been called
ScoringInit ==
    /\ PipelineIdle
    /\ ComponentsIdle
    /\ IdleBut("scoring")
    /\ \E v \in MetricDicts, a \in MetricDicts :
          scoring = [ScoringIdle EXCEPT
            !.pc = "called", !.visual_metrics = v, !.audio_metrics = a]

\* the body of _calculate_overall_quality, up to its return
ReturnOverallQuality ==
    /\ scoring.pc = "called"
    /\ scoring' = [scoring EXCEPT
          !.pc = "returned",
          !.overall = CalculateOverallScore(scoring.visual_metrics,
                                            scoring.audio_metrics)]
    /\ UNCHANGED notScoring

ScoringNext == ReturnOverallQuality

ScoringSpec == ScoringInit /\ [][ScoringNext]_vars

\* ---- organize_outputs ------------------------------------------------------
\* A path of the list is known by the part number in its title: segment k
\* of the source is saved as '<title> (partie k).mp4'.

\* the lists process_video can return for a source of n segments: the
\* parts that did not fail, in source order
RECURSIVE ReturnedLists(_)
ReturnedLists(n) ==
    IF n = 0
      THEN { << >> }
      ELSE ReturnedLists(n - 1)
             \cup { Append(l, n) : l \in ReturnedLists(n - 1) }

\* process_video has returned output_paths for a source of `parts`
\* segments and organize_outputs(output_paths, video_title) is called
OrganizerInit ==
    /\ PipelineIdle
    /\ ComponentsIdle
    /\ IdleBut("organizer")
    /\ \E n \in 1..MaxParts :
          \E l \in ReturnedLists(n) :
            organizer = [OrganizerIdle EXCEPT
              !.pc = "mkdir", !.parts = n, !.output_paths = l]

\* base_dir.mkdir(parents=True, exist_ok=True)
MakeBaseDir ==
    /\ organizer.pc = "mkdir"
    /\ organizer' = [organizer EXCEPT !.pc = "loop"]
    /\ UNCHANGED notOrganizer

\* the outer except: log and raise
OrganizeRaises ==
    /\ organizer.pc = "mkdir"
    /\ organizer' = [organizer EXCEPT !.pc = "raised"]
    /\ UNCHANGED notOrganizer

\* for i, output_path in enumerate(output_paths, 1): the video exists and
\* is moved to segment_<i>/segment_<i>.mp4
MoveToSegmentDir ==
    /\ organizer.pc = "loop"
    /\ organizer.position < Len(organizer.output_paths)
    /\ LET index == organizer.position + 1
       IN  organizer' = [organizer EXCEPT
             !.position = index,
             !.placed = @ \cup { [dir  |-> index,
                                  part |-> organizer.output_paths[index]] }]
    /\ UNCHANGED notOrganizer

\* the video does not exist (logged), or the inner except: continue
SkipOutput ==
    /\ organizer.pc = "loop"
    /\ organizer.position < Len(organizer.output_paths)
    /\ organizer' = [organizer EXCEPT !.position = @ + 1]
    /\ UNCHANGED notOrganizer

\* the list is exhausted
OrganizeDone ==
    /\ organizer.pc = "loop"
    /\ organizer.position = Len(organizer.output_paths)
    /\ organizer' = [organizer EXCEPT !.pc = "done"]
    /\ UNCHANGED notOrganizer

OrganizerNext ==
    \/ MakeBaseDir
    \/ OrganizeRaises
    \/ MoveToSegmentDir
    \/ SkipOutput
    \/ OrganizeDone

OrganizerSpec == OrganizerInit /\ [][OrganizerNext]_vars

\* ---- the request functions of ContentCollector under @retry ---------------
\* @retry(stop=stop_after_attempt(3), ...) calls the function again when it
\* raises, and raises RetryError when the third attempt raises; a value the
\* function returns is the result of the call, whatever it is.
RequestFunctions == { "_search_videos", "_get_video_details", "_download_video" }

\* the functions whose except clause is `except Exception`
CatchesEverything(fn) == fn = "_download_video"

\* a ContentCollector exists; nothing has been called yet
RequestInit ==
    /\ PipelineIdle
    /\ ComponentsIdle
    /\ IdleBut("request")
    /\ request = [RequestIdle EXCEPT !.pc = "ready"]

\* one of the decorated functions is called: the first attempt starts
CallFunction ==
    /\ request.pc = "ready"
    /\ Len(request.returned) < MaxCalls
    /\ \E fn \in RequestFunctions :
          request' = [request EXCEPT
            !.pc = "attempt", !.fn = fn, !.attempts = 1]
    /\ UNCHANGED notRequest

\* the call is over with `outcome` after the attempts made
CallEnds(outcome) ==
    [request EXCEPT
       !.pc = "ready",
       !.returned = Append(@, [fn       |-> request.fn,
                               attempts |-> request.attempts,
                               result   |-> outcome])]

\* session.get and raise_for_status succeed: return the items (or True)
RequestSucceeds ==
    /\ request.pc = "attempt"
    /\ request' = CallEnds("success")
    /\ UNCHANGED notRequest

\* session.get or raise_for_status raises a RequestException: the except
\* clause of the function logs it and returns [] (or False)
RequestFails ==
    /\ request.pc = "attempt"
    /\ request' = CallEnds("failure")
    /\ UNCHANGED notRequest

\* the body raises something else: _download_video catches it and returns
\* False; the other two let it out to the decorator, which starts another
\* attempt or, after the last one, raises RetryError
OtherError ==
    /\ request.pc = "attempt"
    /\ request' =
         IF CatchesEverything(request.fn)
           THEN CallEnds("failure")
           ELSE IF request.attempts < stop_after_attempt
                  THEN [request EXCEPT !.attempts = @ + 1]
                  ELSE CallEnds("RetryError")
    /\ UNCHANGED notRequest

RequestNext ==
    \/ CallFunction
    \/ RequestSucceeds
    \/ RequestFails
    \/ OtherError

RequestSpec == RequestInit /\ [][RequestNext]_vars

\* ---- the cache of _get_tiktok_trends ----------------------------------------
\* Successive calls of _get_tiktok_trends on one cache directory, with the
\* clock of time.time() in seconds.  A list of trends is kept with the
\* instant its Trend objects were created (their timestamp field).

\* the clock advances between calls in steps of ClockStep seconds
ClockStep == 1200

\* a cache file that is never too old
CacheExpiredNever(now, cache_time) == FALSE

\* time.time() - cache_time > self.cache_duration
CacheExpired(now, cache_time) == now - cache_time > cache_duration

\* _get_cached_trends: None without a file, for a file that is too old and
\* for one that cannot be read; the list of the file otherwise
CachedTrends(file, now) ==
    IF ~file.exists \/ CacheExpired(now, file.mtime) \/ ~file.readable
      THEN NoList
      ELSE file.data

\* `if cached_trends:` an empty list counts as no cache
IsTruthy(list) == list.trends # << >>

\* a TrendHunter exists and the cache directory holds no file
HunterInit ==
    /\ PipelineIdle
    /\ ComponentsIdle
    /\ IdleBut("hunter")
    /\ hunter = [HunterIdle EXCEPT !.pc = "ready"]

\* time passes between two calls
ClockAdvances ==
    /\ hunter.pc \in { "ready", "returned" }
    /\ hunter.now + ClockStep <= MaxClock * ClockStep
    /\ hunter' = [hunter EXCEPT !.now = @ + ClockStep]
    /\ UNCHANGED notHunter

\* _get_tiktok_trends() is called
CallGetTiktokTrends ==
    /\ hunter.pc \in { "ready", "returned" }
    /\ hunter' = [hunter EXCEPT
          !.pc = "cache_check",
          !.at_call = hunter.cache_file,
          !.called_at = hunter.now,
          !.requested = FALSE,
          !.trends = NoList,
          !.returned = NoList]
    /\ UNCHANGED notHunter

\* cached_trends = self._get_cached_trends('tiktok'); if cached_trends:
\* return cached_trends
CheckCache ==
    /\ hunter.pc = "cache_check"
    /\ LET cached_trends == CachedTrends(hunter.cache_file, hunter.now)
       IN  hunter' =
             IF IsTruthy(cached_trends)
               THEN [hunter EXCEPT !.pc = "returned", !.returned = cached_trends]
               ELSE [hunter EXCEPT !.pc = "fetch"]
    /\ UNCHANGED notHunter

\* return self._get_backup_trends()
BackupReturned ==
    [hunter EXCEPT
       !.pc = "returned",
       !.requested = TRUE,
       !.returned = [trends |-> GetBackupTrends, created |-> hunter.now]]

\* _fetch_raw_trend_data raises or returns nothing, or _parse_trend_data
\* finds no trend: the backup trends are returned
FetchGivesNothing ==
    /\ hunter.pc = "fetch"
    /\ hunter' = BackupReturned
    /\ UNCHANGED notHunter

\* the request succeeds and is parsed; _transform_to_trend_objects keeps
\* the n items it can build a Trend from
FetchGivesTrends ==
    /\ hunter.pc = "fetch"
    /\ \E n \in 0..MaxItems :
          hunter' = [hunter EXCEPT
            !.pc = "cache_write",
            !.requested = TRUE,
            !.trends = [trends  |-> ListedTrends("tiktok", "api", n),
                        created |-> hunter.now]]
    /\ UNCHANGED notHunter

\* self._cache_trends(trends, 'tiktok'); return trends
CacheTrends ==
    /\ hunter.pc = "cache_write"
    /\ hunter' = [hunter EXCEPT
          !.pc = "returned",
          !.returned = hunter.trends,
          !.cache_file = [exists   |-> TRUE,
                          mtime    |-> hunter.now,
                          readable |-> TRUE,
                          data     |-> hunter.trends]]
    /\ UNCHANGED notHunter

\* _cache_trends fails, which it only logs: open() fails and the directory
\* is as before, or the dump fails and leaves a truncated file
CacheWriteFails ==
    /\ hunter.pc = "cache_write"
    /\ \/ hunter' = [hunter EXCEPT
             !.pc = "returned", !.returned = hunter.trends]
       \/ hunter' = [hunter EXCEPT
             !.pc = "returned",
             !.returned = hunter.trends,
             !.cache_file = [exists   |-> TRUE,
                             mtime    |-> hunter.now,
                             readable |-> FALSE,
                             data     |-> NoList]]
    /\ UNCHANGED notHunter

HunterNext ==
    \/ ClockAdvances
    \/ CallGetTiktokTrends
    \/ CheckCache
    \/ FetchGivesNothing
    \/ FetchGivesTrends
    \/ CacheTrends
    \/ CacheWriteFails

HunterSpec == HunterInit /\ [][HunterNext]_vars

\* ==== properties ==========================================================
\* _split_video has run
SplitDone == config.source = "ok" /\ pc \notin { "start", "split" }

\* process_video has returned from its loop
LoopReturned == SplitDone /\ ~config.dry_run /\ pc = "done"

\* C1: for every duration D > 0 and segment length L > 0, _split_video gives
\* exactly ceil(D/L) segments that tile [0, D): the first starts at 0, each
\* starts where the previous one ends, the last ends at D, and a remainder is
\* a final shorter segment, never dropped.
C1_SplitTilesSource ==
    SplitDone =>
        LET D == config.duration
            L == config.segment_duration * TicksPerSec
            n == Len(segments)
        IN  /\ n = CeilDiv(D, L)
            /\ segments[1].start = 0
            /\ segments[n].end = D
            /\ \A k \in 1..n : /\ segments[k].start < segments[k].end
                               /\ segments[k].end - segments[k].start <= L
            /\ \A k \in 1..(n - 1) : segments[k + 1].start = segments[k].end

\* C2: once N segments exist, whatever set F of them fails (a step raising or
\* the encoder reporting failure), process_video does not raise, goes through
\* every segment, and returns exactly the N - |F| paths of the others, in
\* sequence order.
C2_FailuresAreSegmentLocal ==
    /\ SplitDone => result # "raised"
    /\ LoopReturned =>
          /\ result = "returned"
          /\ i = Len(segments)
          /\ failed \subseteq 1..Len(segments)
          /\ Len(output_paths) = Len(segments) - Cardinality(failed)
          /\ output_paths = SelectSeq(Indices(Len(segments)), LAMBDA k : k \notin failed)

C2_Witness ==
    /\ LoopReturned
    /\ Len(segments) = 2
    /\ failed = { 1 }
    /\ output_paths = << 2 >>
    /\ config.reencode_with_ffmpeg

\* C3: when process_video returns, none of the temporary files it created
\* (temp_segment_<i>.mp4, temp_with_subs_<i>.mp4, temp_for_whisper.mp4,
\* temp_segment.srt) exists any more, whichever way each segment ended.
C3_TempFilesRemoved ==
    pc = "done" => \A f \in files : ~IsTemp(f)

\* C4: reencode_video returns True only if every encoder invocation exited
\* zero and the file at output_path is complete and no larger than max_size;
\* a failed probe, a non-zero exit of either pass, or a file still over the
\* limit after the reduction pass gives False.
C4_NoSilentSuccess ==
    pc = "enc_ret" =>
        /\ encResult \in { "True", "False" }
        /\ encResult = "True" =>
              /\ encCalls # << >>
              /\ \A c \in DOMAIN encCalls : encCalls[c].returncode = 0
              /\ OutVideo(i) \in files
              /\ OutVideo(i) \notin partial
              /\ outSize <= max_size
        /\ encCalls = << >> => encResult = "False"
        /\ (\E c \in DOMAIN encCalls : encCalls[c].returncode # 0) => encResult = "False"
        /\ outSize > max_size => encResult = "False"

C4_Witness ==
    /\ pc = "enc_ret"
    /\ encResult = "True"
    /\ Len(encCalls) = 2
    /\ outSize <= max_size

\* C5: a reencode_video call invokes the encoder at most twice, the primary
\* pass and then at most one reduction pass; the reduction pass runs only
\* after the primary pass exited zero with an output over max_size; and the
\* call always ends with a result.
EncoderPositions == { "enc_probe", "enc_primary", "enc_size", "red_probe", "red_encode" }

C5_CallsBounded ==
    /\ Len(encCalls) <= 2
    /\ \A c \in DOMAIN encCalls :
          encCalls[c].pass = (IF c = 1 THEN "primary" ELSE "reduction")
    /\ Len(encCalls) = 2 => encCalls[1].returncode = 0
    /\ pc \in { "red_probe", "red_encode" } =>
          /\ encCalls = << [pass |-> "primary", returncode |-> 0] >>
          /\ outSize > max_size

C5_SingleBoundedRetry ==
    /\ []C5_CallsBounded
    /\ (pc \in EncoderPositions) ~> (pc = "enc_ret" /\ encResult \in { "True", "False" })

C5_Witness ==
    /\ pc = "enc_ret"
    /\ Len(encCalls) = 2
    /\ encCalls[2].pass = "reduction"
    /\ encResult = "False"
    /\ outSize > max_size

\* C7: when the speech-to-text call of a segment raises, the exception does
\* not leave _generate_subtitles_for_segment: the segment is not given up,
\* goes on to the next step without subtitles, and, the later steps
\* succeeding, its path is appended to the result as an uncaptioned artifact.
C7_RaiseIsAbsorbed ==
    (transcribeRaised' /\ ~transcribeRaised) =>
        /\ pc' = "open"
        /\ failed' = failed
        /\ ~subtitles'.present

C7_EmittedUncaptioned ==
    transcribeRaised =>
        /\ ~captioned
        /\ rendered = << >>
        /\ (pc \in { "cleanup", "loop" } /\ i \notin failed) =>
              (output_paths # << >> /\ output_paths[Len(output_paths)] = i)

C7_TranscriptionFailureNonFatal ==
    /\ [][C7_RaiseIsAbsorbed]_vars
    /\ []C7_EmittedUncaptioned

C7_Witness ==
    /\ transcribeRaised
    /\ pc = "cleanup"
    /\ ~captioned
    /\ output_paths[Len(output_paths)] = i
    /\ OutVideo(i) \in files

\* C6: every path process_video returns names a video file that exists and
\* was written by a completed encode, for every configuration, including
\* reencode_with_ffmpeg = False.
C6_ReturnedPathsExist ==
    (pc = "done" /\ result = "returned") =>
        \A k \in DOMAIN output_paths :
            /\ OutVideo(output_paths[k]) \in files
            /\ OutVideo(output_paths[k]) \notin partial

\* C8: a segment goes through Segmented, Transcribed, Captioned, Normalized
\* (aspect correction and watermark), Encoded, SizeChecked in that order; in
\* particular captions are rendered before the aspect correction.
StageRank(stage) ==
    CASE stage = "Segmented"       -> 1
      [] stage = "Transcribed"     -> 2
      [] stage = "Captioned"       -> 3
      [] stage = "AspectCorrected" -> 4
      [] stage = "Watermarked"     -> 4
      [] stage = "Encoded"         -> 5
      [] stage = "SizeChecked"     -> 6

C8_StageOrder ==
    \A p, q \in DOMAIN stages :
        p < q => StageRank(stages[p]) <= StageRank(stages[q])

\* C9: no text element is created for a span with start >= end, with a
\* duration over 15 s, or with empty text after trimming; exactly the other
\* spans are rendered.
BlankText(text) == text \in { "", " " }

ValidSpan(span) ==
    /\ span.start < span.end
    /\ span.end - span.start <= 15
    /\ ~BlankText(span.text)

C9_InvalidSpansExcluded ==
    /\ \A k \in DOMAIN rendered : ValidSpan(rendered[k])
    /\ (pc = "watermark" /\ captioned) =>
          rendered = SelectSeq(subtitles.segments, ValidSpan)

\* C10: no span that reaches the caption renderer is longer than 6 s (longer
\* ones have been split after merging).
C10_RenderedSpansAtMostSixSeconds ==
    \A k \in DOMAIN rendered : rendered[k].end - rendered[k].start <= 6

\* (w, h) of the segment clip after the normalisation step: the composite of
\* _force_vertical_format when the step ran it, the clip's own size otherwise
ClipDims ==
    IF \E k \in DOMAIN stages : stages[k] = "AspectCorrected"
      THEN ForceVerticalFormat(config.dims)
      ELSE config.dims

\* width is within one pixel of height * 9/16
IsVertical(dims) ==
    /\ dims[1] * 16 - dims[2] * 9 <= 16
    /\ dims[2] * 9 - dims[1] * 16 <= 16

\* C11: with force_vertical enabled every segment leaves the normalisation
\* step with width:height equal to 9:16, within one pixel of rounding.
C11_VerticalAfterNormalization ==
    (config.force_vertical /\ pc = "captions") => IsVertical(ClipDims)

\* C12: when the source cannot be read (the path does not exist, or the file
\* cannot be opened) process_video raises and no segment has been processed.
C12_UnreadableSourceRaises ==
    (pc = "done" /\ config.source # "ok")
        => (result = "raised" /\ segments = << >> /\ files = {})

\* C19 as stated: with dry_run process_video returns an empty list and creates
\* no file, for every source.
C19_DryRunReturnsEmpty ==
    (config.dry_run /\ pc = "done")
        => (result = "returned" /\ output_paths = << >> /\ files = {})

\* C19: with dry_run process_video creates no file at any point and, for
\* every source that can be opened or does not exist, returns an empty list;
\* for a source that exists but cannot be opened it raises.
C19_DryRunCreatesNothing ==
    config.dry_run =>
        /\ files = {}
        /\ output_paths = << >>
        /\ pc = "done" =>
              IF config.source = "unreadable" THEN result = "raised"
                                              ELSE result = "returned"

C19_Witness ==
    /\ config.dry_run
    /\ config.source = "ok"
    /\ pc = "done"
    /\ result = "returned"
    /\ Len(segments) >= 2

\* the step just taken is _reduce_file_size returning False without the
\* reduction encode having exited with code zero: the probe failed, or the
\* encode exited non-zero
ReductionFailed ==
    \/ pc = "red_probe" /\ pc' = "enc_ret"
    \/ /\ pc = "red_encode"
       /\ encCalls'[Len(encCalls')].returncode # 0

\* C20: when the probe of _reduce_file_size fails or its encode exits
\* non-zero, the file at video_path is as it was before the call: still
\* there, of the same size, and not overwritten by a partial encode.
C20_ReplaceOnlyAfterSuccess ==
    [][ ReductionFailed =>
          /\ outSize' = outSize
          /\ (OutVideo(i) \in files') = (OutVideo(i) \in files)
          /\ (OutVideo(i) \in partial') = (OutVideo(i) \in partial) ]_vars

C20_Witness ==
    /\ pc = "enc_ret"
    /\ encResult = "False"
    /\ Len(encCalls) = 2
    /\ encCalls[2] = [pass |-> "reduction", returncode |-> 1]
    /\ OutVideo(i) \in files
    /\ OutVideo(i) \notin partial
    /\ ReduceTemp(i) \in files
    /\ outSize > max_size

\* C13: a time that is a whole number of milliseconds comes back from
\* _format_timestamp followed by _srt_time_to_seconds as the same number of
\* milliseconds.
C13_TimestampRoundTrip ==
    codec.pc = "drawtext" => codec.seconds = codec.time

\* _prepare_post_data has returned
PostDataPrepared == publisher.pc \in { "api", "report" }

\* C14: the post data _prepare_post_data returns has at most max_hashtags
\* hashtags and a description of at most max_description_length characters.
C14_PostDataWithinLimits ==
    PostDataPrepared
        => /\ Len(publisher.post_data.hashtags) <= publisher.cfg.max_hashtags
           /\ Len(publisher.post_data.description)
                  <= publisher.cfg.max_description_length

\* the file at video_path exists and is larger than max_file_size
Oversize ==
    publisher.video.exists /\ publisher.video.size > publisher.cfg.max_file_size

\* the file at video_path exists and is within max_file_size
WithinSize ==
    publisher.video.exists /\ publisher.video.size <= publisher.cfg.max_file_size

C16_VideoLeftUnchanged ==
    /\ quality.content = "video"
    /\ (quality.pc = "done" /\ quality.result = "returned")
          => quality.reports = 1

\* the video is in the list being returned
Collected(video) ==
    \E e \in DOMAIN collector.collected : collector.collected[e].id = video.id

\* C17: every video of the list collect_content builds has duration <=
\* max_duration, views >= min_views and a successful download, and a video
\* failing any of these is not in the list; an error on a keyword or on a
\* video is skipped over: the call returns having gone through every
\* keyword and every video listed for it.
C17_OnlyQualifyingVideosCollected ==
    /\ \A e \in DOMAIN collector.collected :
          /\ collector.collected[e].duration <= max_duration
          /\ collector.collected[e].views >= min_views
          /\ collector.collected[e].downloads
    /\ ( /\ collector.handled > 0
         /\ \/ collector.video.duration > max_duration
            \/ collector.video.views < min_views
            \/ ~collector.video.downloads )
          => ~Collected(collector.video)
    /\ collector.pc = "done"
          => /\ collector.result = "returned"
             /\ collector.k = collector.keywords
             /\ collector.handled = collector.listed

C17_Witness ==
    /\ collector.pc = "done"
    /\ collector.errors >= 2
    /\ collector.keywords >= 2
    /\ Len(collector.collected) >= 1
    /\ collector.handled > Len(collector.collected)
    /\ ~collector.video.wellformed

\* no fresh cache was found and the fetch failed: the request raised on
\* every attempt, returned no data, or no trend could be parsed from it
FetchFailed == trends.fetch \in { "raised", "no data", "no trend parsed" }

\* _get_tiktok_trends has returned
TiktokTrendsReturned == trends.pc \in { "reddit", "save", "done" }

C21_ReduceTempRemoved ==
    pc = "enc_ret" => ReduceTemp(i) \notin files

\* C27: after process_video returns, a metadata sidecar exists only for the
\* segments whose video path is in the returned list.
C27_SidecarsOnlyForReturned ==
    (pc = "done" /\ result = "returned") =>
        \A k \in 1..Len(segments) :
            OutSidecar(k) \in files
                => \E p \in DOMAIN output_paths : output_paths[p] = k

\* the renderer invocations of the call so far that used the named filter
Invocations(name) ==
    { k \in DOMAIN renderer.calls : renderer.calls[k].renderer = name }

\* C22: _add_subtitles_ffmpeg tries libass first and drawtext only after a
\* libass run that exited non-zero, and always then; it returns True exactly
\* when the last renderer run exited zero, so False when both fail.
C22_OrderedFallbackChain ==
    /\ \A k \in Invocations("drawtext") :
          /\ k = 2
          /\ renderer.calls[1].renderer = "libass"
          /\ ExitedNonZero(renderer.calls[1])
    /\ Invocations("libass") \subseteq { 1 }
    /\ renderer.pc = "done" =>
          /\ ( /\ renderer.calls # << >>
               /\ ExitedNonZero(renderer.calls[1]) )
                => Invocations("drawtext") = { 2 }
          /\ renderer.result = "True"
                <=> /\ renderer.calls # << >>
                    /\ ExitedZero(renderer.calls[Len(renderer.calls)])

C22_Witness ==
    /\ renderer.pc = "done"
    /\ renderer.result = "False"
    /\ Len(renderer.calls) = 2
    /\ ExitedNonZero(renderer.calls[1])
    /\ renderer.calls[2].renderer = "drawtext"
    /\ ExitedNonZero(renderer.calls[2])

HasStage(stage) == \E k \in DOMAIN stages : stages[k] = stage

\* the step just taken is _add_subtitles raising while composing the captions
CaptionsRaise == pc = "captions" /\ subtitles.present /\ ~captioned'

\* the current segment was transcribed and has been through a captions step
\* that raised
CaptionsRaised ==
    /\ pc \notin { "export", "transcribe", "open", "normalize", "captions" }
    /\ HasStage("Transcribed")
    /\ ~transcribeRaised
    /\ ~captioned

\* C23: when composing the captions raises, _add_subtitles hands back the
\* clip it was given, the segment is not marked failed and goes on to the
\* next stage, and unless a later stage fails it is in the result list.
C23_CaptionFailureNonFatal ==
    /\ [][ CaptionsRaise =>
             /\ pc' = "watermark"
             /\ failed' = failed
             /\ result' = result
             /\ rendered' = << >>
             /\ stages' = stages ]_vars
    /\ []( ( /\ CaptionsRaised
             /\ pc \in { "cleanup", "loop" }
             /\ i \notin failed )
              => ( /\ output_paths # << >>
                   /\ output_paths[Len(output_paths)] = i ) )

C23_Witness ==
    /\ CaptionsRaised
    /\ pc = "cleanup"
    /\ stages[Len(stages)] = "SizeChecked"
    /\ output_paths[Len(output_paths)] = i
    /\ OutVideo(i) \in files

\* the bars around the content on axis k: before it and after it
BarBefore(k) == framing.offset[k]
BarAfter(k) == framing.size[k] - framing.offset[k] - framing.content[k]

\* C24: the normaliser never crops or scales: the content keeps the size of
\* the input, one axis of the composite equals the input's and the other is
\* at least as large, the bars are on the vertical axis for a clip wider than
\* 9:16 and on the horizontal axis otherwise, and the two bars differ by at
\* most one pixel.
C24_PadsNeverCrops ==
    framing.pc \in { "composite", "unchanged" } =>
      LET padded == IF WiderThanTarget(framing.dims) THEN 2 ELSE 1
          kept   == 3 - padded
      IN  /\ framing.content = framing.dims
          /\ framing.size[kept] = framing.dims[kept]
          /\ framing.size[padded] >= framing.dims[padded]
          /\ BarBefore(kept) = 0 /\ BarAfter(kept) = 0
          /\ BarBefore(padded) >= 0 /\ BarAfter(padded) >= 0
          /\ BarAfter(padded) - BarBefore(padded) \in { 0, 1 }

\* a clip wider than the target has been given bars of unequal size
C24_Witness ==
    /\ framing.pc = "composite"
    /\ WiderThanTarget(framing.dims)
    /\ BarBefore(2) > 0
    /\ BarAfter(2) = BarBefore(2) + 1

\* the primary pass has been invoked
PrimaryInvoked == bitrates.maxrate # NoRate

\* the reduction pass has been invoked
ReduceInvoked == bitrates.pc = "reduced"

\* C25: the primary pass is invoked with maxrate 1.5 times and bufsize 2
\* times the target bitrate in the unit of the target, and the reduction
\* pass with 1.5 times (rounded down to a whole number) and 2 times its
\* recomputed bitrate.
C25_RatesFollowTarget ==
    /\ PrimaryInvoked =>
         /\ bitrates.maxrate =
              [halves |-> 3 * bitrates.bitrate.value,
               unit   |-> bitrates.bitrate.unit]
         /\ bitrates.bufsize =
              [halves |-> 4 * bitrates.bitrate.value,
               unit   |-> bitrates.bitrate.unit]
    /\ ReduceInvoked =>
         /\ bitrates.r_maxrate.unit = "k"
         /\ bitrates.r_maxrate.halves \in
              { 3 * bitrates.new_bitrate - 1, 3 * bitrates.new_bitrate }
         /\ bitrates.r_bufsize =
              [halves |-> 4 * bitrates.new_bitrate, unit |-> "k"]

\* the keys of either dictionary whose value is of one of the kinds
WithKind(kinds) ==
    Cardinality({ k \in DOMAIN scoring.visual_metrics :
                    scoring.visual_metrics[k] \in kinds })
    + Cardinality({ k \in DOMAIN scoring.audio_metrics :
                      scoring.audio_metrics[k] \in kinds })

\* C26: the score is (metrics with status 'good') / (metrics carrying a
\* status), within [0, 1] and 0 when no metric carries a status, and the
\* overall status is 'good' exactly when the score is at least 0.7.
C26_ScoreIsGoodFraction ==
    scoring.pc = "returned" =>
      LET score == scoring.overall
      IN  /\ score.total > 0
          /\ 0 <= score.good /\ score.good <= score.total
          /\ IF WithKind({ "good", "other" }) = 0
               THEN score.good = 0
               ELSE score.good * WithKind({ "good", "other" })
                      = WithKind({ "good" }) * score.total
          /\ score.status = "good" <=> 10 * score.good >= 7 * score.total

\* a score of exactly 0.7: every value of the two dictionaries carries a
\* status and seven in ten of them are good
C26_Witness ==
    /\ scoring.pc = "returned"
    /\ scoring.overall.status = "good"
    /\ 10 * scoring.overall.good = 7 * scoring.overall.total
    /\ \E k \in DOMAIN scoring.visual_metrics :
          scoring.visual_metrics[k] = "other"
    /\ WithKind({ "none" }) = 0

\* C28: organize_outputs places the artifact of the k-th segment of the
\* source in directory segment_k, also when segments before it failed.
C28_KeepsSourceIndex ==
    \A p \in organizer.placed : p.dir = p.part

\* C29: when the HTTP request of one of the three functions fails, the
\* call is attempted again, and the failure result is returned only after
\* the third failed attempt.
C29_FailureAfterThreeAttempts ==
    \A k \in DOMAIN request.returned :
      request.returned[k].result = "failure" =>
        request.returned[k].attempts = stop_after_attempt

\* the cache held a non-empty list of trends when the call began
CachedAtCall == hunter.at_call.exists /\ hunter.at_call.data.trends # << >>

\* the age of that cache entry when the call began
AgeAtCall == hunter.called_at - hunter.at_call.mtime

\* C30: a call of _get_tiktok_trends requests the API if and only if there
\* is no non-empty cache entry of at most cache_duration seconds: with one
\* it returns the cached trends without a request, with an older one it
\* requests again, and backup trends are never written to the cache.
C30_ApiCalledIffNoFreshCache ==
    /\ hunter.pc = "returned" =>
         /\ hunter.requested <=> ~(CachedAtCall /\ AgeAtCall <= cache_duration)
         /\ (CachedAtCall /\ AgeAtCall <= cache_duration) =>
              hunter.returned = hunter.at_call.data
         /\ (CachedAtCall /\ AgeAtCall > cache_duration) =>
              /\ hunter.requested
              /\ hunter.returned # hunter.at_call.data
    /\ \A k \in DOMAIN hunter.cache_file.data.trends :
         hunter.cache_file.data.trends[k].source # "backup"

\* a call made cache_duration seconds after the fetch that filled the
\* cache has returned the cached trends without a request
C30_Witness ==
    /\ hunter.pc = "returned"
    /\ CachedAtCall
    /\ AgeAtCall = cache_duration
    /\ ~hunter.requested
    /\ hunter.returned = hunter.at_call.data

====
